---- MODULE Spec2Model ----
(***************************************************************************)
(* Store API (src/index.js): four HTTP handlers over the Firestore         *)
(* collection `products`, and the maintenance routine that recomputes the  *)
(* searchKeywords field.                                                   *)
(*                                                                         *)
(* A document is a function from field names to values, so a field may be  *)
(* absent.  Document keys are 1..Len(store) and stand for the store's      *)
(* identifier strings in their __name__ order.  Strings that the code      *)
(* converts (toLowerCase, split, parseInt, parseFloat) are sequences of    *)
(* one-character strings; strings it only compares are TLA+ strings.       *)
(***************************************************************************)
EXTENDS Integers, Sequences, FiniteSets, TLC

VARIABLES
    store,       \* the products collection: key -> document data
    op,          \* the handler of the request in flight ("none" when idle)
    pc,          \* where that handler stands: idle, the await it is at, done
    params,      \* req.query / req.params of the request in flight
    q,           \* the Firestore query object the handler holds across an await
    prevDocs,    \* previousPageSnapshot.docs of a list request
    issued,      \* the store reads this request has issued, in order
    faults,      \* the store reads of this request that threw
    responses,   \* the responses this request has sent, in order
    maint        \* updateProductsWithKeywords: pc, started/landed/failed writes, log

vars == <<store, op, pc, params, q, prevDocs, issued, faults, responses, maint>>

----------------------------------------------------------------------------
(* Bounds of the model *)

MaxDocs == 3
MaxLimit == 2
MaxPage == 3

(* Value domains of the documents and requests *)

Categories == {"hats", "shoes"}
Prices == {5, 20}
Ratings == {4}

Min(a, b) == IF a <= b THEN a ELSE b

----------------------------------------------------------------------------
(* JavaScript string and number conversions *)

LowerLetters == <<"a", "b", "r">>
UpperLetters == <<"A", "B", "R">>
Digits == <<"0", "1", "2", "3", "4", "5", "6", "7", "8", "9">>

\* String.prototype.toLowerCase on one character
LowerChar(c) ==
    IF \E i \in DOMAIN UpperLetters : UpperLetters[i] = c
    THEN LowerLetters[CHOOSE i \in DOMAIN UpperLetters : UpperLetters[i] = c]
    ELSE c

\* String.prototype.toLowerCase
ToLowerCase(s) == [i \in DOMAIN s |-> LowerChar(s[i])]

IsDigit(c) == \E i \in DOMAIN Digits : Digits[i] = c
DigitVal(c) == (CHOOSE i \in DOMAIN Digits : Digits[i] = c) - 1

\* the length of the longest prefix of s made of digits
RECURSIVE DigitPrefix(_)
DigitPrefix(s) ==
    IF s = <<>> \/ ~IsDigit(Head(s)) THEN 0 ELSE 1 + DigitPrefix(Tail(s))

RECURSIVE DecimalValue(_)
DecimalValue(s) ==
    IF s = <<>> THEN 0
    ELSE 10 * DecimalValue(SubSeq(s, 1, Len(s) - 1)) + DigitVal(s[Len(s)])

\* A JavaScript number: a finite integer, Infinity or NaN
Num(n) == [kind |-> "finite", val |-> n]
Infinity == [kind |-> "Infinity", val |-> 0]
NaN == [kind |-> "NaN", val |-> 0]

\* what String(Infinity) is
InfinityString == <<"Infinity">>

\* parseInt(s): the leading digits of s, NaN when there are none
ParseInt(s) ==
    IF DigitPrefix(s) = 0 THEN NaN
    ELSE Num(DecimalValue(SubSeq(s, 1, DigitPrefix(s))))

\* parseFloat(s): as parseInt on the integral strings of the model, and Infinity
ParseFloat(s) ==
    IF s = InfinityString THEN Infinity
    ELSE IF DigitPrefix(s) = 0 THEN NaN
    ELSE Num(DecimalValue(SubSeq(s, 1, DigitPrefix(s))))

\* the decimal string of n < 100
DecimalString(n) ==
    IF n < 10 THEN <<Digits[n + 1]>>
    ELSE <<Digits[(n \div 10) + 1], Digits[(n % 10) + 1]>>

\* String.prototype.split(' '): the pieces between the separators, empty ones kept
RECURSIVE Split(_, _)
Split(s, sep) ==
    IF \E i \in DOMAIN s : s[i] = sep
    THEN LET i == CHOOSE j \in DOMAIN s :
                     s[j] = sep /\ \A k \in 1..(j - 1) : s[k] # sep
         IN <<SubSeq(s, 1, i - 1)>> \o Split(SubSeq(s, i + 1, Len(s)), sep)
    ELSE <<s>>

\* a destructured property with its default: `name = dflt`
Param(obj, name, dflt) == IF name \in DOMAIN obj THEN obj[name] ELSE dflt

\* JavaScript truthiness of an optional string: undefined and '' are falsy
Truthy(obj, name) == name \in DOMAIN obj /\ Len(obj[name]) > 0

----------------------------------------------------------------------------
(* The Firestore client: queries, snapshots, cursors *)

EmptyObject == [x \in {} |-> x]

\* query(Products): the whole collection
Collection == [where |-> {}, orderBy |-> <<>>, limit |-> <<>>, startAfter |-> <<>>]

Where(qry, field, cmp, value) ==
    [qry EXCEPT !.where = @ \cup {[field |-> field, cmp |-> cmp, value |-> value]}]
OrderBy(qry, field, dir) ==
    [qry EXCEPT !.orderBy = Append(@, [field |-> field, dir |-> dir])]
LimitDocs(qry, n) == [qry EXCEPT !.limit = <<n>>]
StartAfter(qry, snap) == [qry EXCEPT !.startAfter = <<snap>>]

\* a document snapshot: doc.id and doc.data()
Snapshot(st, k) == [id |-> k, data |-> st[k]]

\* one where() clause on one document
Satisfies(d, w) ==
    /\ w.field \in DOMAIN d
    /\ CASE w.cmp = "==" -> d[w.field] = w.value
         [] w.cmp = ">=" -> w.value.kind = "finite" /\ d[w.field] >= w.value.val
         [] w.cmp = "<=" -> \/ w.value.kind = "Infinity"
                            \/ w.value.kind = "finite" /\ d[w.field] <= w.value.val
         [] w.cmp = "array-contains" ->
                \E i \in DOMAIN d[w.field] : d[w.field][i] = w.value

\* the fields a query orders by: the explicit orderBy fields, then the fields
\* of its range filters (ascending, or the direction of the last orderBy)
RangeFields(qry) == {w.field : w \in {x \in qry.where : x.cmp \in {">=", "<="}}}
LastDir(qry) ==
    IF qry.orderBy = <<>> THEN "asc" ELSE qry.orderBy[Len(qry.orderBy)].dir
ExplicitFields(qry) == {qry.orderBy[i].field : i \in DOMAIN qry.orderBy}

\* a and b are snapshots; a sorts strictly before b under the query's ordering:
\* the orderBy fields in turn, then implicit range fields, then __name__
RECURSIVE BeforeBy(_, _, _)
BeforeBy(a, b, keys) ==
    IF keys = <<>> THEN
        FALSE
    ELSE LET f == Head(keys).field
             x == IF f = "__name__" THEN a.id ELSE a.data[f]
             y == IF f = "__name__" THEN b.id ELSE b.data[f]
         IN IF x = y THEN BeforeBy(a, b, Tail(keys))
            ELSE IF Head(keys).dir = "asc" THEN x < y ELSE x > y

SortKeys(qry) ==
    LET implicit == RangeFields(qry) \ ExplicitFields(qry)
        imp == IF implicit = {} THEN <<>>
               ELSE <<[field |-> CHOOSE f \in implicit : TRUE, dir |-> LastDir(qry)]>>
    IN qry.orderBy \o imp \o <<[field |-> "__name__", dir |-> LastDir(qry)]>>

Before(qry, a, b) == BeforeBy(a, b, SortKeys(qry))

\* the keys the query selects: every where() holds, every ordered field exists,
\* and the document lies strictly after the cursor
Selected(st, qry) ==
    {k \in DOMAIN st :
        /\ \A w \in qry.where : Satisfies(st[k], w)
        /\ \A f \in ExplicitFields(qry) : f \in DOMAIN st[k]
        /\ \A i \in DOMAIN qry.startAfter :
              Before(qry, qry.startAfter[i], Snapshot(st, k))}

\* getDocs(query).docs: the selected documents in the query's order, cut to its limit
GetDocs(st, qry) ==
    LET S == Selected(st, qry)
        rank(k) == Cardinality({j \in S : Before(qry, Snapshot(st, j), Snapshot(st, k))})
        all == [i \in 1..Cardinality(S) |->
                   Snapshot(st, CHOOSE k \in S : rank(k) = i - 1)]
        n == IF qry.limit = <<>> THEN Len(all) ELSE Min(qry.limit[1], Len(all))
    IN SubSeq(all, 1, n)

\* { id: doc.id, ...doc.data() }: a later property overrides an earlier one
SpreadDoc(snap) == snap.data @@ [id |-> snap.id]

\* querySnapshot.docs.map(doc => ({ id: doc.id, ...doc.data() }))
MapDocs(docs) == [i \in DOMAIN docs |-> SpreadDoc(docs[i])]

\* the response bodies
OkResponse(body) == [status |-> 200, body |-> body]
ErrorResponse(code, msg) == [status |-> code, body |-> [error |-> msg]]

----------------------------------------------------------------------------
(* GET /products *)

\* the destructured and parsed parameters of a list request
ListArgs(qry) ==
    [sortBy   |-> Param(qry, "sortBy", "price"),
     order    |-> Param(qry, "order", "asc"),
     limitNum |-> ParseInt(Param(qry, "limit", DecimalString(10))),
     pageNum  |-> ParseInt(Param(qry, "page", DecimalString(1)))]

\* limit() and orderBy() throw on an argument they do not accept
ValidListArgs(a) ==
    /\ a.limitNum.kind = "finite" /\ a.limitNum.val > 0
    /\ a.order \in {"asc", "desc"}

\* MainQuery with the order parameter dropped
MainQueryAscending(qry) ==
    LET a == ListArgs(qry)
        filtered == IF Truthy(qry, "category")
                    THEN Where(Collection, "category", "==", qry.category)
                    ELSE Collection
    IN LimitDocs(OrderBy(filtered, a.sortBy, "asc"), a.limitNum.val)

\* the main query: the category filter when given, the order, the limit
MainQuery(qry) ==
    LET a == ListArgs(qry)
        filtered == IF Truthy(qry, "category")
                    THEN Where(Collection, "category", "==", qry.category)
                    ELSE Collection
    IN LimitDocs(OrderBy(filtered, a.sortBy, a.order), a.limitNum.val)

\* pageNum > 1
BeyondFirstPage(a) == a.pageNum.kind = "finite" /\ a.pageNum.val > 1

\* the previous-page query: the collection in the same order, cut to the
\* records of the pages before pageNum
PreviousPageQuery(qry) ==
    LET a == ListArgs(qry)
    IN LimitDocs(OrderBy(Collection, a.sortBy, a.order),
                 (a.pageNum.val - 1) * a.limitNum.val)

\* ApplyCursor that takes a cursor only from a full previous page
ApplyCursorIfFull(qry, docs) ==
    IF docs # <<>> /\ Len(docs) >= qry.limit[1] THEN StartAfter(qry, docs[Len(docs)]) ELSE qry

\* lastVisible = docs[docs.length - 1]; if (lastVisible) q = query(q, startAfter(lastVisible))
ApplyCursor(qry, docs) ==
    IF docs # <<>> THEN StartAfter(qry, docs[Len(docs)]) ELSE qry

\* a catch block that answers with an empty result
CatchFaultEmptyResult(sent, msg) == Append(sent, OkResponse(<<>>))

\* the catch block of a handler: log, then the generic 500
CatchFault(sent, msg) == Append(sent, ErrorResponse(500, msg))

\* the handler up to its first await
ListProducts(qry) ==
    /\ pc = "idle"
    /\ op' = "list"
    /\ params' = qry
    /\ prevDocs' = <<>>
    /\ faults' = <<>>
    /\ IF ~ValidListArgs(ListArgs(qry)) THEN
           /\ pc' = "done"
           /\ q' = Collection
           /\ issued' = <<>>
           /\ responses' = CatchFault(<<>>, "Failed to fetch products")
       ELSE IF BeyondFirstPage(ListArgs(qry)) THEN
           /\ pc' = "prev"
           /\ q' = MainQuery(qry)
           /\ issued' = <<PreviousPageQuery(qry)>>
           /\ responses' = <<>>
       ELSE
           /\ pc' = "main"
           /\ q' = MainQuery(qry)
           /\ issued' = <<MainQuery(qry)>>
           /\ responses' = <<>>
    /\ UNCHANGED <<store, maint>>

\* await getDocs(previousPageQuery) returns: the cursor, then the main query is issued
ListPreviousPageReturns ==
    /\ op = "list" /\ pc = "prev"
    /\ LET docs == GetDocs(store, issued[Len(issued)])
       IN /\ prevDocs' = docs
          /\ q' = ApplyCursor(q, docs)
          /\ issued' = Append(issued, ApplyCursor(q, docs))
    /\ pc' = "main"
    /\ UNCHANGED <<store, op, params, faults, responses, maint>>

\* await getDocs(q) returns: the records are sent
ListMainReturns ==
    /\ op = "list" /\ pc = "main"
    /\ responses' = Append(responses, OkResponse(MapDocs(GetDocs(store, q))))
    /\ pc' = "done"
    /\ UNCHANGED <<store, op, params, q, prevDocs, issued, faults, maint>>

\* either getDocs of the list handler throws
ListQueryFaults ==
    /\ op = "list" /\ pc \in {"prev", "main"}
    /\ faults' = Append(faults, Len(issued))
    /\ responses' = CatchFault(responses, "Failed to fetch products")
    /\ pc' = "done"
    /\ UNCHANGED <<store, op, params, q, prevDocs, issued, maint>>

\* the request is over; the server takes the next one
RequestEnds ==
    /\ pc = "done"
    /\ pc' = "idle"
    /\ op' = "none"
    /\ params' = EmptyObject
    /\ q' = Collection
    /\ prevDocs' = <<>>
    /\ issued' = <<>>
    /\ faults' = <<>>
    /\ responses' = <<>>
    /\ UNCHANGED <<store, maint>>

\* an optional request parameter: absent, or one of vals
Optional(name, vals) == {EmptyObject} \cup {name :> v : v \in vals}

LimitStrings == {DecimalString(n) : n \in 1..MaxLimit}
PageStrings == {DecimalString(n) : n \in 2..MaxPage}

ListRequests ==
    {a @@ b @@ c @@ d @@ e :
        a \in Optional("category", {"hats"}),
        b \in Optional("sortBy", {"rating"}),
        c \in Optional("order", {"desc"}),
        d \in Optional("limit", LimitStrings),
        e \in Optional("page", PageStrings)}

\* the documents of the list specification: rating is an optional field
ListDocuments ==
    [category : Categories, price : Prices]
        \cup [category : Categories, price : {5}, rating : Ratings]

Stores(Documents) == UNION {[1..n -> Documents] : n \in 0..MaxDocs}

MaintIdle ==
    [pc |-> "idle", snapshot |-> <<>>, started |-> <<>>, landed |-> <<>>,
     failed |-> {}, logged |-> FALSE]

InitRequest ==
    /\ op = "none"
    /\ pc = "idle"
    /\ params = EmptyObject
    /\ q = Collection
    /\ prevDocs = <<>>
    /\ issued = <<>>
    /\ faults = <<>>
    /\ responses = <<>>
    /\ maint = MaintIdle

InitList == store \in Stores(ListDocuments) /\ InitRequest

ListSteps ==
    \/ \E qry \in ListRequests : ListProducts(qry)
    \/ ListPreviousPageReturns
    \/ ListMainReturns
    \/ ListQueryFaults

NextList == ListSteps \/ RequestEnds

SpecList == InitList /\ [][NextList]_vars

----------------------------------------------------------------------------
(* GET /product/:productId *)

\* the handler up to await getDoc(productRef)
GetProduct(productId) ==
    /\ pc = "idle"
    /\ op' = "get"
    /\ params' = [productId |-> productId]
    /\ pc' = "get"
    /\ q' = Collection
    /\ prevDocs' = <<>>
    /\ issued' = <<[doc |-> productId]>>
    /\ faults' = <<>>
    /\ responses' = <<>>
    /\ UNCHANGED <<store, maint>>

\* the response to a snapshot: 404 when it does not exist, else the record
ProductResponse(st, productId) ==
    IF productId \notin DOMAIN st
    THEN ErrorResponse(404, "Product not found")
    ELSE OkResponse(SpreadDoc(Snapshot(st, productId)))

\* await getDoc returns
GetProductReturns ==
    /\ op = "get" /\ pc = "get"
    /\ responses' = Append(responses, ProductResponse(store, params.productId))
    /\ pc' = "done"
    /\ UNCHANGED <<store, op, params, q, prevDocs, issued, faults, maint>>

\* getDoc throws
GetProductFaults ==
    /\ op = "get" /\ pc = "get"
    /\ faults' = Append(faults, Len(issued))
    /\ responses' = CatchFault(responses, "Failed to fetch product")
    /\ pc' = "done"
    /\ UNCHANGED <<store, op, params, q, prevDocs, issued, maint>>

ProductIds == 1..(MaxDocs + 1)

\* the documents of the lookup specification: the data may hold its own id field
GetDocuments == [price : {5}] \cup [price : {5}, id : 1..2]

InitGet == store \in Stores(GetDocuments) /\ InitRequest

GetSteps ==
    \/ \E productId \in ProductIds : GetProduct(productId)
    \/ GetProductReturns
    \/ GetProductFaults

NextGet == GetSteps \/ RequestEnds

SpecGet == InitGet /\ [][NextGet]_vars

----------------------------------------------------------------------------
(* GET /products/search *)

\* `!q` with q undefined only
MissingTermUndefined(qry) == "q" \notin DOMAIN qry

\* `!q`: q is undefined or the empty string
MissingTerm(qry) == ~Truthy(qry, "q")

\* SearchQuery with q as given
SearchQueryAsGiven(qry) ==
    Where(Collection, "searchKeywords", "array-contains", qry.q)

\* where('searchKeywords', 'array-contains', q.toLowerCase())
SearchQuery(qry) ==
    Where(Collection, "searchKeywords", "array-contains", ToLowerCase(qry.q))

\* the handler up to its first await, or to the 400 of a missing term
SearchProducts(qry) ==
    /\ pc = "idle"
    /\ op' = "search"
    /\ params' = qry
    /\ q' = Collection
    /\ prevDocs' = <<>>
    /\ faults' = <<>>
    /\ IF MissingTerm(qry) THEN
           /\ pc' = "done"
           /\ issued' = <<>>
           /\ responses' = <<ErrorResponse(400, "Search term (q) is required")>>
       ELSE
           /\ pc' = "search"
           /\ issued' = <<SearchQuery(qry)>>
           /\ responses' = <<>>
    /\ UNCHANGED <<store, maint>>

\* await getDocs(searchQuery) returns
SearchReturns ==
    /\ op = "search" /\ pc = "search"
    /\ responses' = Append(responses, OkResponse(MapDocs(GetDocs(store, issued[1]))))
    /\ pc' = "done"
    /\ UNCHANGED <<store, op, params, q, prevDocs, issued, faults, maint>>

\* getDocs(searchQuery) throws
SearchFaults ==
    /\ op = "search" /\ pc = "search"
    /\ faults' = Append(faults, Len(issued))
    /\ responses' = CatchFault(responses, "Failed to search products")
    /\ pc' = "done"
    /\ UNCHANGED <<store, op, params, q, prevDocs, issued, maint>>

SearchTerms == {<<>>, <<"a">>, <<"A">>, <<"a", "b">>, <<"A", "B">>}
SearchRequests == Optional("q", SearchTerms)

KeywordArrays == {<< <<"a">> >>, << <<"a", "b">> >>, << <<"b">>, <<"a">> >>, << <<"A">> >>}

\* the documents of the search specification: searchKeywords may not be there yet
SearchDocuments ==
    [title : {<<"A">>}] \cup [title : {<<"A">>}, searchKeywords : KeywordArrays]

InitSearch == store \in Stores(SearchDocuments) /\ InitRequest

SearchSteps ==
    \/ \E qry \in SearchRequests : SearchProducts(qry)
    \/ SearchReturns
    \/ SearchFaults

NextSearch == SearchSteps \/ RequestEnds

SpecSearch == InitSearch /\ [][NextSearch]_vars

----------------------------------------------------------------------------
(* GET /products/filter *)

FilterArgs(qry) ==
    [minPrice |-> ParseFloat(Param(qry, "minPrice", DecimalString(0))),
     maxPrice |-> ParseFloat(Param(qry, "maxPrice", InfinityString)),
     sort     |-> Param(qry, "sort", "price")]

\* where() throws on NaN in a range comparison
ValidFilterArgs(a) == a.minPrice.kind # "NaN" /\ a.maxPrice.kind # "NaN"

\* FilterQuery with the brand compared as given
FilterQueryBrandAsGiven(qry) ==
    LET a == FilterArgs(qry)
        range == Where(Where(Collection, "price", ">=", a.minPrice),
                       "price", "<=", a.maxPrice)
        branded == IF Truthy(qry, "brand")
                   THEN Where(range, "brand", "==", qry.brand)
                   ELSE range
    IN OrderBy(branded, a.sort, "asc")

\* the price range, the lowercased brand when given, the order
FilterQuery(qry) ==
    LET a == FilterArgs(qry)
        range == Where(Where(Collection, "price", ">=", a.minPrice),
                       "price", "<=", a.maxPrice)
        branded == IF Truthy(qry, "brand")
                   THEN Where(range, "brand", "==", ToLowerCase(qry.brand))
                   ELSE range
    IN OrderBy(branded, a.sort, "asc")

\* the handler up to its first await
FilterProducts(qry) ==
    /\ pc = "idle"
    /\ op' = "filter"
    /\ params' = qry
    /\ q' = Collection
    /\ prevDocs' = <<>>
    /\ faults' = <<>>
    /\ IF ~ValidFilterArgs(FilterArgs(qry)) THEN
           /\ pc' = "done"
           /\ issued' = <<>>
           /\ responses' = CatchFault(<<>>, "Failed to filter products")
       ELSE
           /\ pc' = "filter"
           /\ issued' = <<FilterQuery(qry)>>
           /\ responses' = <<>>
    /\ UNCHANGED <<store, maint>>

\* await getDocs(q) returns
FilterReturns ==
    /\ op = "filter" /\ pc = "filter"
    /\ responses' = Append(responses, OkResponse(MapDocs(GetDocs(store, issued[1]))))
    /\ pc' = "done"
    /\ UNCHANGED <<store, op, params, q, prevDocs, issued, faults, maint>>

\* getDocs(q) throws
FilterFaults ==
    /\ op = "filter" /\ pc = "filter"
    /\ faults' = Append(faults, Len(issued))
    /\ responses' = CatchFault(responses, "Failed to filter products")
    /\ pc' = "done"
    /\ UNCHANGED <<store, op, params, q, prevDocs, issued, maint>>

FilterPrices == {5, 10, 50, 60}
Brands == {<<"a">>, <<"A">>}

FilterRequests ==
    {a @@ b @@ c @@ d :
        a \in Optional("minPrice", {DecimalString(10)}),
        b \in Optional("maxPrice", {DecimalString(50)}),
        c \in Optional("brand", {<<"A">>}),
        d \in Optional("sort", {"rating"})}

\* the documents of the filter specification: rating is an optional field
FilterDocuments ==
    [price : FilterPrices, brand : Brands]
        \cup [price : {10}, brand : {<<"a">>}, rating : Ratings]

\* the catalogue {A: 5, B: 20, C: 45, D: 60}
ExampleStore ==
    <<[price |-> 5, brand |-> <<"a">>], [price |-> 20, brand |-> <<"a">>],
      [price |-> 45, brand |-> <<"a">>], [price |-> 60, brand |-> <<"a">>]>>

InitFilter == store \in Stores(FilterDocuments) \cup {ExampleStore} /\ InitRequest

FilterSteps ==
    \/ \E qry \in FilterRequests : FilterProducts(qry)
    \/ FilterReturns
    \/ FilterFaults

NextFilter == FilterSteps \/ RequestEnds

SpecFilter == InitFilter /\ [][NextFilter]_vars

----------------------------------------------------------------------------
(* updateProductsWithKeywords *)

\* the callback of forEach up to its await: the write it starts, none when
\* productData.title is undefined and toLowerCase throws
StartedWrite(snap) ==
    IF "title" \in DOMAIN snap.data
    THEN <<[id |-> snap.id, searchKeywords |-> Split(ToLowerCase(snap.data.title), " ")]>>
    ELSE <<>>

RECURSIVE StartedWrites(_)
StartedWrites(docs) ==
    IF docs = <<>> THEN <<>>
    ELSE StartedWrite(Head(docs)) \o StartedWrites(Tail(docs))

\* updateDoc(productRef, { searchKeywords: keywords }) applied by the store
ApplyWrite(st, w) ==
    [st EXCEPT ![w.id] = [searchKeywords |-> w.searchKeywords] @@ @]

RECURSIVE ApplyWrites(_, _)
ApplyWrites(st, ws) ==
    IF ws = <<>> THEN st ELSE ApplyWrites(ApplyWrite(st, Head(ws)), Tail(ws))

\* a pass that awaits each update before it starts the next one
AwaitedPass(st, docs) ==
    [store |-> ApplyWrites(st, StartedWrites(docs)),
     maint |-> [pc |-> "logged", snapshot |-> docs, started |-> StartedWrites(docs),
                landed |-> [i \in DOMAIN StartedWrites(docs) |-> i],
                failed |-> {}, logged |-> TRUE]]

\* querySnapshot.forEach(async ...) and the log line after it: every callback
\* runs up to its await, so every write is started and none is waited for
ForEachPass(st, docs) ==
    [store |-> st,
     maint |-> [pc |-> "logged", snapshot |-> docs, started |-> StartedWrites(docs),
                landed |-> <<>>, failed |-> {}, logged |-> TRUE]]

\* the routine up to await getDocs(Products)
MaintenanceStarts ==
    /\ maint.pc = "idle"
    /\ maint' = [MaintIdle EXCEPT !.pc = "reading"]
    /\ UNCHANGED <<store, op, pc, params, q, prevDocs, issued, faults, responses>>

\* getDocs returns; the forEach starts the writes and the log line is printed
MaintenanceRuns ==
    /\ maint.pc = "reading"
    /\ store' = ForEachPass(store, GetDocs(store, Collection)).store
    /\ maint' = ForEachPass(store, GetDocs(store, Collection)).maint
    /\ UNCHANGED <<op, pc, params, q, prevDocs, issued, faults, responses>>

\* getDocs(Products) throws: the routine rejects, nothing is written or logged
MaintenanceReadFaults ==
    /\ maint.pc = "reading"
    /\ maint' = MaintIdle
    /\ UNCHANGED <<store, op, pc, params, q, prevDocs, issued, faults, responses>>

\* the writes that are started and neither landed nor failed
InFlight(m) ==
    {i \in DOMAIN m.started :
        i \notin m.failed /\ \A j \in DOMAIN m.landed : m.landed[j] # i}

\* a started write lands in the store
WriteLands(i) ==
    /\ i \in InFlight(maint)
    /\ store' = ApplyWrite(store, maint.started[i])
    /\ maint' = [maint EXCEPT !.landed = Append(@, i)]
    /\ UNCHANGED <<op, pc, params, q, prevDocs, issued, faults, responses>>

\* a started write is rejected; its promise is awaited by nobody
WriteFails(i) ==
    /\ i \in InFlight(maint)
    /\ maint' = [maint EXCEPT !.failed = @ \cup {i}]
    /\ UNCHANGED <<store, op, pc, params, q, prevDocs, issued, faults, responses>>

\* every write is settled; the routine may be run again
MaintenanceEnds ==
    /\ maint.pc = "logged"
    /\ InFlight(maint) = {}
    /\ maint' = MaintIdle
    /\ UNCHANGED <<store, op, pc, params, q, prevDocs, issued, faults, responses>>

Titles == {<<"A">>, <<"a", " ", "B">>}

\* the documents of the maintenance specification: no title, a title, or a
\* title with keywords of an earlier pass
MaintenanceDocuments ==
    [price : {5}]
        \cup [title : Titles]
        \cup [title : Titles, searchKeywords : {<< <<"b">> >>}]

InitMaintenance == store \in Stores(MaintenanceDocuments) /\ InitRequest

NextMaintenance ==
    \/ MaintenanceStarts
    \/ MaintenanceRuns
    \/ MaintenanceReadFaults
    \/ \E i \in 1..MaxDocs : WriteLands(i)
    \/ \E i \in 1..MaxDocs : WriteFails(i)
    \/ MaintenanceEnds

SpecMaintenance == InitMaintenance /\ [][NextMaintenance]_vars

----------------------------------------------------------------------------
(* The server: the four handlers *)

ServerDocuments ==
    [category : {"hats"}, price : Prices, brand : {<<"a">>}, title : {<<"A">>},
     searchKeywords : {<< <<"a">> >>}]

Init == store \in Stores(ServerDocuments) /\ InitRequest

Next == ListSteps \/ GetSteps \/ SearchSteps \/ FilterSteps \/ RequestEnds

Spec == Init /\ [][Next]_vars

----------------------------------------------------------------------------
(* Properties of GET /products *)

ListDone == op = "list" /\ pc = "done"
ListSucceeded == ListDone /\ responses[Len(responses)].status = 200
ListBody == responses[Len(responses)].body

\* consecutive records do not run against the direction of the order
OrderedBy(body, field, dir) ==
    \A i \in 1..(Len(body) - 1) :
        /\ field \in DOMAIN body[i] /\ field \in DOMAIN body[i + 1]
        /\ IF dir = "asc" THEN body[i][field] <= body[i + 1][field]
                          ELSE body[i][field] >= body[i + 1][field]

\* what a request for page 1 with the same category, sortBy, order and limit returns
FirstPageBody == MapDocs(GetDocs(store, MainQuery(params)))

\* C1: a successful list response holds at most `limit` records, ordered by
\* sortBy in the order direction, all of the given category
C1_ListBoundedOrderedFiltered ==
    ListSucceeded =>
        LET a == ListArgs(params)
        IN /\ Len(ListBody) <= a.limitNum.val
           /\ OrderedBy(ListBody, a.sortBy, a.order)
           /\ Truthy(params, "category") =>
                 \A i \in DOMAIN ListBody :
                     /\ "category" \in DOMAIN ListBody[i]
                     /\ ListBody[i].category = params.category

\* a descending, category-filtered page cut to fewer records than match
C1_Witness ==
    /\ ListSucceeded
    /\ Truthy(params, "category")
    /\ ListArgs(params).order = "desc"
    /\ Len(ListBody) = 2 /\ ListArgs(params).limitNum.val = 2
    /\ ListBody[1].price > ListBody[2].price
    /\ Cardinality({k \in DOMAIN store : store[k].category = params.category}) > 2

\* the filtered, sorted sequence of the request: the records of the given
\* category (all records when none is given) that carry the sortBy field
FilteredSorted ==
    LET a == ListArgs(params)
        filtered == IF Truthy(params, "category")
                    THEN Where(Collection, "category", "==", params.category)
                    ELSE Collection
    IN MapDocs(GetDocs(store, OrderBy(filtered, a.sortBy, a.order)))

Ids(body) == {body[i].id : i \in DOMAIN body}

\* C2: with at least 2L matching records, pages 1 and 2 share no identifier
\* and page 1 followed by page 2 is the first 2L records of the filtered,
\* sorted sequence
C2_PagesDisjointAndOrdered ==
    (/\ ListSucceeded
     /\ ListArgs(params).pageNum.val = 2
     /\ Len(FilteredSorted) >= 2 * ListArgs(params).limitNum.val) =>
        /\ Ids(FirstPageBody) \cap Ids(ListBody) = {}
        /\ FirstPageBody \o ListBody
              = SubSeq(FilteredSorted, 1, 2 * ListArgs(params).limitNum.val)

\* C2 without a category filter
PagesDisjointWithoutCategory ==
    Truthy(params, "category") \/ C2_PagesDisjointAndOrdered

\* C3: the cursor of page N > 1 comes from a query with the main query's
\* category filter and order, bounded to (N-1)*limit, and the main query
\* returns only records strictly after it
C3_CursorFromSameFilter ==
    (op = "list" /\ Len(issued) = 2) =>
        LET a == ListArgs(params)
            prev == issued[1]
            main == MainQuery(params)
        IN /\ prev.where = main.where
           /\ prev.orderBy = main.orderBy
           /\ prev.limit = <<(a.pageNum.val - 1) * a.limitNum.val>>
           /\ prevDocs = GetDocs(store, prev)
           /\ prevDocs # <<>> =>
                 /\ q.startAfter = <<prevDocs[Len(prevDocs)]>>
                 /\ \A k \in Ids(MapDocs(GetDocs(store, q))) :
                        Before(q, prevDocs[Len(prevDocs)], Snapshot(store, k))

\* C3 without a category filter
CursorWithoutCategory ==
    Truthy(params, "category") \/ C3_CursorFromSameFilter

\* C9: an empty previous page applies no cursor and the response is that of
\* page 1; a non-empty previous page always applies its last record as cursor
C9_EmptyPreviousPageNoCursor ==
    (op = "list" /\ Len(issued) = 2 /\ faults = <<>>) =>
        /\ prevDocs = <<>> =>
              /\ q.startAfter = <<>>
              /\ ListSucceeded => ListBody = FirstPageBody
        /\ prevDocs # <<>> => q.startAfter = <<prevDocs[Len(prevDocs)]>>

\* a page beyond the first answered after an empty previous page, store not empty
C9_Witness ==
    /\ ListSucceeded
    /\ Len(issued) = 2
    /\ prevDocs = <<>>
    /\ Len(store) > 0
    /\ ListBody = FirstPageBody

----------------------------------------------------------------------------
(* Properties of GET /product/:productId *)

GetAnswered == op = "get" /\ pc = "done" /\ faults = <<>>

\* C4: a lookup that does not fault answers a present identifier with its
\* record, whose id field is the requested identifier, and an absent
\* identifier with 404, never 500
C4_LookupByIdentifier ==
    GetAnswered =>
        LET r == responses[Len(responses)]
        IN IF params.productId \in DOMAIN store
           THEN /\ r.status = 200
                /\ r.body.id = params.productId
                /\ \A f \in DOMAIN store[params.productId] \ {"id"} :
                       r.body[f] = store[params.productId][f]
           ELSE r.status = 404

\* C4 for documents whose data holds no id field of its own
LookupWithoutIdField ==
    (GetAnswered /\ params.productId \in DOMAIN store
        /\ "id" \in DOMAIN store[params.productId]) \/ C4_LookupByIdentifier

----------------------------------------------------------------------------
(* Properties of GET /products/search *)

SearchDone == op = "search" /\ pc = "done"
SearchSucceeded == SearchDone /\ responses[Len(responses)].status = 200
SearchBody == responses[Len(responses)].body

\* C5: a search with q omitted or empty answers 400, once, and reads nothing
C5_MissingTermRejected ==
    (op = "search" /\ ("q" \notin DOMAIN params \/ params.q = <<>>)) =>
        /\ pc = "done"
        /\ Len(responses) = 1
        /\ responses[1].status = 400
        /\ issued = <<>>
        /\ faults = <<>>

\* the empty string was sent as q
C5_Witness ==
    /\ op = "search" /\ pc = "done"
    /\ "q" \in DOMAIN params /\ params.q = <<>>
    /\ Len(store) > 0

\* the keys of the records that hold the token among their searchKeywords
HoldingToken(st, token) ==
    {k \in DOMAIN st :
        /\ "searchKeywords" \in DOMAIN st[k]
        /\ \E i \in DOMAIN st[k].searchKeywords : st[k].searchKeywords[i] = token}

\* C6: a search returns exactly the records whose searchKeywords hold the
\* lowercased q as a whole token, and a term that differs only in letter
\* case returns the same
C6_ExactTokenAnyCase ==
    SearchSucceeded =>
        /\ Ids(SearchBody) = HoldingToken(store, ToLowerCase(params.q))
        /\ Len(SearchBody) = Cardinality(HoldingToken(store, ToLowerCase(params.q)))
        /\ \A i \in DOMAIN SearchBody :
               SearchBody[i] = SpreadDoc(Snapshot(store, SearchBody[i].id))
        /\ \A t \in SearchTerms :
               (t # <<>> /\ ToLowerCase(t) = ToLowerCase(params.q)) =>
                   SearchBody = MapDocs(GetDocs(store, SearchQuery([q |-> t])))

\* an upper-case term that finds a record and leaves out one whose only
\* keyword merely starts with the term
C6_Witness ==
    /\ SearchSucceeded
    /\ params.q = <<"A">>
    /\ SearchBody # <<>>
    /\ \E k \in DOMAIN store :
           /\ "searchKeywords" \in DOMAIN store[k]
           /\ store[k].searchKeywords = << <<"a", "b">> >>
           /\ k \notin Ids(SearchBody)

----------------------------------------------------------------------------
(* Properties of GET /products/filter *)

FilterSucceeded ==
    op = "filter" /\ pc = "done" /\ responses[Len(responses)].status = 200
FilterBody == responses[Len(responses)].body

\* the keys with minPrice <= price <= maxPrice and the lowercased brand
InRange(st, qry) ==
    LET lo == IF "minPrice" \in DOMAIN qry THEN DecimalValue(qry.minPrice) ELSE 0
    IN {k \in DOMAIN st :
           /\ "price" \in DOMAIN st[k]
           /\ lo <= st[k].price
           /\ "maxPrice" \in DOMAIN qry => st[k].price <= DecimalValue(qry.maxPrice)
           /\ Truthy(qry, "brand") =>
                  "brand" \in DOMAIN st[k] /\ st[k].brand = ToLowerCase(qry.brand)}

\* C7 as stated: exactly the records in the price range (and of the brand),
\* ascending by sort
C7_FilterExactRange ==
    FilterSucceeded =>
        /\ Ids(FilterBody) = InRange(store, params)
        /\ Len(FilterBody) = Cardinality(InRange(store, params))
        /\ OrderedBy(FilterBody, FilterArgs(params).sort, "asc")

\* C7 amended: exactly the records in the price range (and of the brand)
\* that carry the sort field, ascending by sort
C7_FilterExactRangeOfSortable ==
    FilterSucceeded =>
        LET sortable == {k \in InRange(store, params) :
                            FilterArgs(params).sort \in DOMAIN store[k]}
        IN /\ Ids(FilterBody) = sortable
           /\ Len(FilterBody) = Cardinality(sortable)
           /\ OrderedBy(FilterBody, FilterArgs(params).sort, "asc")
           /\ \A i \in DOMAIN FilterBody :
                  FilterBody[i] = SpreadDoc(Snapshot(store, FilterBody[i].id))

\* the catalogue {A: 5, B: 20, C: 45, D: 60} filtered with 10 and 50 gives [B, C]
C7_Witness ==
    /\ FilterSucceeded
    /\ store = ExampleStore
    /\ params = [minPrice |-> DecimalString(10), maxPrice |-> DecimalString(50)]
    /\ [i \in DOMAIN FilterBody |-> FilterBody[i].id] = <<2, 3>>

----------------------------------------------------------------------------
(* Properties of the four handlers under faults *)

\* C8: a faulted store read ends the request with one response, the generic
\* 500 with no records in it, the faulted read is the last one issued (no
\* retry, no later read), and the main query of a list request is only
\* issued once the previous-page query has returned
C8_FaultAbortsRequest ==
    /\ faults # <<>> =>
          /\ pc = "done"
          /\ Len(faults) = 1
          /\ faults[1] = Len(issued)
          /\ Len(responses) = 1
          /\ responses[1].status = 500
          /\ DOMAIN responses[1].body = {"error"}
    /\ (op = "list" /\ BeyondFirstPage(ListArgs(params)) /\ Len(issued) = 2) =>
          /\ prevDocs = GetDocs(store, issued[1])
          /\ issued[2] = ApplyCursor(MainQuery(params), prevDocs)
    /\ pc = "done" => Len(responses) = 1

\* the previous-page query of a list request faulted
C8_Witness ==
    /\ op = "list" /\ pc = "done"
    /\ BeyondFirstPage(ListArgs(params))
    /\ faults = <<1>>
    /\ Len(issued) = 1
    /\ Len(store) > 0

----------------------------------------------------------------------------
(* Properties of updateProductsWithKeywords *)

\* C10: the step that prints the log line starts one write for every titled
\* record of the snapshot and waits for none: none has landed, the store is
\* as it was
C10_LogPrintedWithWritesInFlight ==
    [][(~maint.logged /\ maint'.logged) =>
          /\ maint'.started = StartedWrites(GetDocs(store, Collection))
          /\ InFlight(maint') = DOMAIN maint'.started
          /\ maint'.landed = <<>>
          /\ store' = store]_vars

\* the log line is printed, the write started second has landed first and
\* changed its record, and the write started first has not landed
C10_Witness ==
    /\ maint.logged
    /\ Len(maint.started) >= 2
    /\ maint.landed = <<2>>
    /\ 1 \in InFlight(maint)
    /\ store[maint.started[2].id].searchKeywords = maint.started[2].searchKeywords
    /\ \/ "searchKeywords" \notin DOMAIN store[maint.started[1].id]
       \/ store[maint.started[1].id].searchKeywords # maint.started[1].searchKeywords

====
